---- MODULE Spec2Model ----
(***************************************************************************)
(* Model of passage_gnn_simple/centralized_passage.py, the centralized     *)
(* GNN passage controller AgentCentralizedGNNPassage.                      *)
(*                                                                         *)
(* Units: lengths and speeds are integers counting quarters (0.25 m,       *)
(* 0.25 m/s, 0.25 m/s^2), so max_v = 1.5 is 6, max_a = 1.0 is 4,           *)
(* goal_reached_dist = 0.25 is 1 and the spec's raw action 10 is 40.       *)
(* Angles are whole degrees.  Arithmetic is exact (no rounding).           *)
(***************************************************************************)
EXTENDS Integers, Sequences, FiniteSets, TLC

\* ------------------------------------------------------------------ bounds
\* longest list get_controllable_agents hands to step
MaxRequested == 2
\* largest speed magnitude (per axis) tried as input of the dynamics filter
MaxSpeed == 9

\* ------------------------------------------------------- program constants
\* f = 4.0, line 80
f == 4
\* declare_parameter defaults, lines 30-32
max_v_default == 6
max_a_default == 4
goal_reached_dist == 1

\* the agent ids that exist
Agents == {"a", "b", "c"}

Range(s) == {s[i] : i \in 1..Len(s)}
Min(x, y) == IF x < y THEN x ELSE y

\* ------------------------------------------------------------ pure helpers
\* np.clip on one component
clip(x, lo, hi) == IF x < lo THEN lo ELSE IF x > hi THEN hi ELSE x

\* scipy Rotation.from_euler("z", angle): cosine and sine of the angle
CosDeg(deg) == CASE deg = 0 -> 1 [] deg = 90 -> 0 [] deg = 180 -> -1 [] deg = 270 -> 0
SinDeg(deg) == CASE deg = 0 -> 0 [] deg = 90 -> 1 [] deg = 180 -> 0 [] deg = 270 -> -1

\* Rotation.apply([x, y, 0])[:2]
apply(deg, v) ==
    << CosDeg(deg) * v[1] - SinDeg(deg) * v[2],
       SinDeg(deg) * v[1] + CosDeg(deg) * v[2] >>

\* update_current_side turning the frame also for y = 0
update_current_side_ge(y) == IF y >= 0 THEN 180 ELSE 0

\* update_current_side turning the frame by a quarter turn
update_current_side_quarter(y) == IF y > 0 THEN 90 ELSE 0

\* update_current_side, lines 87-91: the rotation chosen from the y of the
\* first start pose
update_current_side(y) == IF y > 0 THEN 180 ELSE 0

\* 1 / f in milliseconds
period_ms == 1000 \div f

\* constrain_axis without the acceleration clip of line 83
constrain_axis_noacc(a, v, max_v, max_a) ==
    LET clipped_v  == clip(a, -max_v, max_v)
        desired_a  == ((clipped_v - v) * 1000) \div period_ms
        possible_v == v + (desired_a * period_ms) \div 1000
    IN  clip(possible_v, -max_v, max_v)

\* constrain_axis without the final clip of line 85
constrain_axis_noclip(a, v, max_v, max_a) ==
    LET clipped_v  == clip(a, -max_v, max_v)
        desired_a  == ((clipped_v - v) * 1000) \div period_ms
        possible_a == clip(desired_a, -max_a, max_a)
    IN  v + (possible_a * period_ms) \div 1000

\* constrain_axis taking the velocity difference for the acceleration
\* (line 82 without the division by 1 / f)
constrain_axis_nofreq(a, v, max_v, max_a) ==
    LET clipped_v  == clip(a, -max_v, max_v)
        desired_a  == clipped_v - v
        possible_a == clip(desired_a, -max_a, max_a)
        possible_v == v + (possible_a * period_ms) \div 1000
    IN  clip(possible_v, -max_v, max_v)

\* action_constrain_vel_acc on one axis, lines 81-85
constrain_axis(a, v, max_v, max_a) ==
    LET clipped_v  == clip(a, -max_v, max_v)
        desired_a  == ((clipped_v - v) * 1000) \div period_ms
        possible_a == clip(desired_a, -max_a, max_a)
        possible_v == v + (possible_a * period_ms) \div 1000
    IN  clip(possible_v, -max_v, max_v)

\* action_constrain_vel_acc, lines 76-85 (numpy applies it to both axes)
action_constrain_vel_acc(action, velocity, max_v, max_a) ==
    << constrain_axis(action[1], velocity[1], max_v, max_a),
       constrain_axis(action[2], velocity[2], max_v, max_a) >>

\* sample_action_from_logit, lines 68-74: the drawn sample, clamped
sample_action_from_logit(sample, max_v) ==
    << clip(sample[1], -max_v, max_v), clip(sample[2], -max_v, max_v) >>

\* squared np.linalg.norm of p - g
norm2(p, g) == (p[1] - g[1]) * (p[1] - g[1]) + (p[2] - g[2]) * (p[2] - g[2])

\* the comparison of line 155 with <= for <
goal_reached_le(p, g, dist) == norm2(p, g) <= dist * dist

\* line 155: dist_goal < goal_reached_dist (both sides squared)
goal_reached(p, g, dist) == norm2(p, g) < dist * dist

\* line 99: the under-observation test
under_observed(states, controllable_agents) ==
    Cardinality(DOMAIN states) # Len(controllable_agents)


\* ------------------------------------------------------------------- state
VARIABLES
    vel_pubs,        \* _vel_pubs: ids that have a command publisher
    state_subs,      \* _state_subs: ids that have a state subscription
    current_states,  \* _current_states: id -> last CurrentState message
    current_side,    \* _current_side: the rotation, in degrees about z
    start_y,         \* list(start_poses.values())[0].position.y
    goal_poses,      \* goal_poses: id -> goal position
    parameters,      \* the node's parameters max_v and max_a
    tick,            \* what the call of step that just returned did and
                     \* returned; NoTick once another callback has run
    done_before,     \* ids some earlier call of step returned done = True for
    pubs_created,    \* id -> the instances that called create_publisher for it
    subs_created,    \* id -> the instances that called create_subscription
    last_report,     \* id -> the last CurrentState message delivered for it
    caller,          \* the instance whose method ran last
    fin,             \* arguments of a call of action_constrain_vel_acc
    fout             \* its result, <<>> before the call

vars == << vel_pubs, state_subs, current_states, current_side, start_y,
           goal_poses, parameters, tick, done_before, pubs_created,
           subs_created, last_report, caller, fin, fout >>

ctrl_vars == << vel_pubs, state_subs, current_states, current_side, start_y,
                goal_poses, parameters, tick, done_before, pubs_created,
                subs_created, last_report, caller >>

\* the controller instances of one process; main (line 165) makes "g"
Instances == {"g", "h"}

\* ------------------------------------------------------------ input values
\* positions and velocities a CurrentState message may carry
MsgVals == { [pos |-> <<0, 0>>, vel |-> <<0, 0>>],
             [pos |-> <<1, 0>>, vel |-> <<8, -2>>],
             [pos |-> <<1, 1>>, vel |-> <<-1, 7>>] }
\* samples the policy head may draw (before the clamp of line 74)
RawVals == { <<40, 0>>, <<-3, 2>> }
\* y of the first start pose
StartYVals == { -1, 0, 1 }
\* goals, set by the base class AgentStartGoal
GoalOf(u) == CASE u = "a" -> <<0, 0>> [] u = "b" -> <<1, 1>>
               [] u = "c" -> <<2, 0>>
\* the lists get_controllable_agents may return: no id twice, not empty
AgentLists ==
    UNION { { s \in [1..n -> Agents] : \A i, j \in 1..n : s[i] = s[j] => i = j }
            : n \in 1..MaxRequested }

NoStates == [u \in {} |-> 0]
NoDones  == [u \in {} |-> FALSE]
NoObs    == [goal |-> <<>>, pos |-> <<>>, vel |-> <<>>]
NoTick ==
    [ calls |-> 0, agents |-> <<>>, side_before |-> 0, short |-> FALSE,
      policy_calls |-> 0, obs_agents |-> <<>>, obs |-> NoObs,
      actions |-> <<>>, published |-> <<>>, skipped |-> <<>>, raised |-> "",
      dones |-> NoDones ]

\* ----------------------------------------------------------------- actions
\* a report that is dropped when the id already has a recorded state
record_state_first(states, uuid, msg) ==
    [u \in DOMAIN states \cup {uuid} |->
        IF u \in DOMAIN states THEN states[u] ELSE msg]

\* _update_current_state, lines 34-35; the callback exists once the
\* subscription of uuid was created (line 49)
record_state(states, uuid, msg) ==
    [u \in DOMAIN states \cup {uuid} |-> IF u = uuid THEN msg ELSE states[u]]

\* the callback partial(self._update_current_state, uuid) of the
\* subscription that instance inst created at lines 46-51
UpdateCurrentStateOf(inst, uuid, msg) ==
    /\ uuid \in state_subs
    /\ inst \in Range(subs_created[uuid])
    /\ current_states' = record_state(current_states, uuid, msg)
    /\ last_report' = [u \in DOMAIN last_report \cup {uuid} |->
                          IF u = uuid THEN msg ELSE last_report[u]]
    /\ caller' = inst
    /\ tick' = NoTick
    /\ UNCHANGED << vel_pubs, state_subs, current_side, start_y, goal_poses,
                    parameters, done_before, pubs_created, subs_created,
                    fin, fout >>

UpdateCurrentState(uuid, msg) == UpdateCurrentStateOf("g", uuid, msg)

\* the base class replaces the start poses (input of update_current_side)
SetStartPoses(y) ==
    /\ y # start_y
    /\ start_y' = y
    /\ tick' = NoTick
    /\ UNCHANGED << vel_pubs, state_subs, current_states, current_side,
                    goal_poses, parameters, done_before, pubs_created,
                    subs_created, last_report, caller, fin, fout >>

\* the registration falling out of the loop: only the last id is registered
update_pubs_and_subs_last(registered, controllable_agents) ==
    registered \cup { controllable_agents[Len(controllable_agents)] }

\* update_pubs_and_subs forgetting the ids that are not requested
update_pubs_and_subs_only(registered, controllable_agents) ==
    Range(controllable_agents)

\* update_pubs_and_subs, lines 37-51: the ids registered afterwards
update_pubs_and_subs(registered, controllable_agents) ==
    registered \cup { u \in Range(controllable_agents) : u \notin registered }

\* the second test written against the publishers, which by then hold the
\* id: no subscription is ever created
new_state_subs_never(subs, controllable_agents) == subs

\* lines 45-51: the keys of _state_subs after the loop
new_state_subs(subs, controllable_agents) ==
    update_pubs_and_subs(subs, controllable_agents)

\* creating for every requested id, registered or not
created_by_always(log, registered, controllable_agents, inst) ==
    [ u \in DOMAIN log |->
        IF u \in Range(controllable_agents)
        THEN Append(log[u], inst) ELSE log[u] ]

\* lines 39-44 and 45-51: create_publisher / create_subscription is called
\* by inst for each requested id that is not yet a key of the dict
created_by(log, registered, controllable_agents, inst) ==
    [ u \in DOMAIN log |->
        IF u \in Range(controllable_agents) /\ u \notin registered
        THEN Append(log[u], inst) ELSE log[u] ]

\* update_pubs_and_subs called on instance inst, lines 37-51
UpdatePubsAndSubs(inst, controllable_agents) ==
    /\ vel_pubs' = update_pubs_and_subs(vel_pubs, controllable_agents)
    /\ state_subs' = new_state_subs(state_subs, controllable_agents)
    /\ pubs_created' = created_by(pubs_created, vel_pubs, controllable_agents, inst)
    /\ subs_created' = created_by(subs_created, state_subs, controllable_agents, inst)
    /\ caller' = inst
    /\ tick' = NoTick
    /\ UNCHANGED << current_states, current_side, start_y, goal_poses,
                    parameters, done_before, last_report, fin, fout >>

\* lines 102-133: the requested ids that get an observation entry, in order
observed_agents(controllable_agents, states) ==
    LET known(u) == u \in DOMAIN states
    IN  SelectSeq(controllable_agents, known)

\* build_obs taking every goal from the first observed id
build_obs_firstgoal(side, obs_agents, states, goals) ==
    [ goal |-> [ i \in 1..Len(obs_agents) |-> apply(side, goals[obs_agents[1]]) ],
      pos  |-> [ i \in 1..Len(obs_agents) |-> apply(side, states[obs_agents[i]].pos) ],
      vel  |-> [ i \in 1..Len(obs_agents) |-> apply(side, states[obs_agents[i]].vel) ] ]

\* lines 102-133: the three lists obs["goal"][0], obs["pos"][0] and
\* obs["vel"][0], one entry per observed id, in the rotated frame
build_obs(side, obs_agents, states, goals) ==
    [ goal |-> [ i \in 1..Len(obs_agents) |-> apply(side, goals[obs_agents[i]]) ],
      pos  |-> [ i \in 1..Len(obs_agents) |-> apply(side, states[obs_agents[i]].pos) ],
      vel  |-> [ i \in 1..Len(obs_agents) |-> apply(side, states[obs_agents[i]].vel) ] ]

\* lines 136-150: zip(controllable_agents, actions, obs["vel"][0]) and the
\* ReferenceState published for each triple
emit(side, pubs, controllable_agents, actions, obs, max_v, max_a) ==
    LET n == Min(Len(controllable_agents), Min(Len(actions), Len(obs.vel)))
        msg(k) ==
            LET proc_action == action_constrain_vel_acc(actions[k], obs.vel[k],
                                                        max_v, max_a)
                action_rot  == apply(side, proc_action)
            IN  [ uuid |-> controllable_agents[k], vn |-> action_rot[1],
                  ve |-> action_rot[2], yaw |-> 90 ]
        has_pub(m) == m.uuid \in pubs
    IN  SelectSeq([k \in 1..n |-> msg(k)], has_pub)

\* lines 137-138: the ids of the triples passed over for want of a publisher
skipped_agents(pubs, controllable_agents, actions, obs) ==
    LET n == Min(Len(controllable_agents), Min(Len(actions), Len(obs.vel)))
        no_pub(u) == u \notin pubs
    IN  SelectSeq(SubSeq(controllable_agents, 1, n), no_pub)

\* lines 152-156: the done flags; needs obs[i] for every requested index
compute_dones(controllable_agents, obs) ==
    [ u \in Range(controllable_agents) |->
        LET i == CHOOSE j \in 1..Len(controllable_agents) :
                     controllable_agents[j] = u
        IN  goal_reached(obs.pos[i], obs.goal[i], goal_reached_dist) ]

\* step, lines 93-156
Step(controllable_agents) ==
    LET pubs1 == update_pubs_and_subs(vel_pubs, controllable_agents)
        subs1 == new_state_subs(state_subs, controllable_agents)
        side1 == update_current_side(start_y)
        obs_agents == observed_agents(controllable_agents, current_states)
        base  == [ NoTick EXCEPT !.calls = 1, !.agents = controllable_agents,
                                 !.side_before = current_side ]
    IN
    /\ vel_pubs' = pubs1
    /\ state_subs' = subs1
    /\ pubs_created' = created_by(pubs_created, vel_pubs, controllable_agents, "g")
    /\ subs_created' = created_by(subs_created, state_subs, controllable_agents, "g")
    /\ caller' = "g"
    /\ current_side' = side1
    /\ UNCHANGED << current_states, start_y, goal_poses, parameters,
                    last_report, fin, fout >>
    /\ IF under_observed(current_states, controllable_agents)
       THEN \* line 100
            /\ tick' = [ base EXCEPT !.short = TRUE,
                           !.dones = [u \in Range(controllable_agents) |-> FALSE] ]
            /\ UNCHANGED done_before
       ELSE IF \E i \in 1..Len(obs_agents) : obs_agents[i] \notin DOMAIN goal_poses
       THEN \* line 110 raises KeyError
            /\ tick' = [ base EXCEPT !.obs_agents = obs_agents,
                                     !.raised = "KeyError" ]
            /\ UNCHANGED done_before
       ELSE IF Len(obs_agents) = 0
       THEN \* lines 56-58: torch.cat along dim 2 of empty 2-d tensors raises,
            \* before the model is called
            /\ tick' = [ base EXCEPT !.raised = "CatError" ]
            /\ UNCHANGED done_before
       ELSE \E obs \in { build_obs(side1, obs_agents, current_states, goal_poses) } :
            \/ \* line 59: the model call raises
               /\ tick' = [ base EXCEPT !.obs_agents = obs_agents, !.obs = obs,
                              !.policy_calls = 1, !.raised = "PolicyError" ]
               /\ UNCHANGED done_before
            \/ \E samples \in [1..Len(obs.pos) -> RawVals] :
               \E actions \in { [ i \in 1..Len(obs.pos) |->
                                    sample_action_from_logit(samples[i],
                                                             parameters.max_v) ] } :
               \E published \in { emit(side1, pubs1, controllable_agents,
                                       actions, obs, parameters.max_v,
                                       parameters.max_a) } :
                 LET sent == [ base EXCEPT !.obs_agents = obs_agents,
                                 !.obs = obs, !.policy_calls = 1,
                                 !.actions = actions, !.published = published,
                                 !.skipped = skipped_agents(pubs1,
                                      controllable_agents, actions, obs) ]
                 IN  IF Len(controllable_agents) > Min(Len(obs.pos), Len(obs.goal))
                     THEN \* line 154 raises IndexError
                          /\ tick' = [ sent EXCEPT !.raised = "IndexError" ]
                          /\ UNCHANGED done_before
                     ELSE LET dones == compute_dones(controllable_agents, obs)
                          IN  /\ tick' = [ sent EXCEPT !.dones = dones ]
                              /\ done_before' = done_before \cup
                                    { u \in DOMAIN dones : dones[u] }

\* ------------------------------------------------------------ controller
\* parameter values the node may be started with
ParamChoices == { [max_v |-> max_v_default, max_a |-> max_a_default] }
\* goals the base class may hold: for every id, or for every id but "b"
GoalChoices == { [u \in Agents |-> GoalOf(u)],
                 [u \in Agents \ {"b"} |-> GoalOf(u)] }

NoCall == [action |-> <<0, 0>>, velocity |-> <<0, 0>>, max_v |-> 0, max_a |-> 0,
           control_frequency |-> 0]

Init ==
    /\ vel_pubs = {}
    /\ state_subs = {}
    /\ current_states = NoStates
    /\ current_side = 0
    /\ start_y \in StartYVals
    /\ goal_poses \in GoalChoices
    /\ parameters \in ParamChoices
    /\ tick = NoTick
    /\ done_before = {}
    /\ pubs_created = [u \in Agents |-> <<>>]
    /\ subs_created = [u \in Agents |-> <<>>]
    /\ last_report = NoStates
    /\ caller = "g"
    /\ fin = NoCall
    /\ fout = <<>>

Next ==
    \/ \E l \in AgentLists : Step(l)
    \/ \E u \in Agents, m \in MsgVals : UpdateCurrentState(u, m)
    \/ \E y \in StartYVals : SetStartPoses(y)

Spec == Init /\ [][Next]_vars

\* ------------------------------------- two controller instances, one class
\* self._vel_pubs read through inst: a class attribute (line 18), one dict
\* for all instances
vel_pubs_of(inst) == vel_pubs

\* self._state_subs read through inst, class attribute of line 19
state_subs_of(inst) == state_subs

\* self._current_states read through inst, class attribute of line 20
current_states_of(inst) == current_states

\* both instances register agents and receive state reports
NextTwo ==
    \/ \E inst \in Instances, l \in AgentLists : UpdatePubsAndSubs(inst, l)
    \/ \E inst \in Instances, u \in Agents, m \in MsgVals :
          UpdateCurrentStateOf(inst, u, m)

SpecTwo == Init /\ [][NextTwo]_vars

\* --------------------------------------------- the dynamics filter alone
\* per-axis values tried as action and as current velocity
XVals == (-MaxSpeed..MaxSpeed) \cup {-40, 40}
YVals == { -8, 0, 3 }
\* control_frequency is the rate the deployment is configured to tick at;
\* __init__ (lines 27-32) declares no parameter for it and
\* action_constrain_vel_acc does not take it
FilterInputs ==
    [ action : XVals \X YVals, velocity : XVals \X YVals,
      max_v : {2, max_v_default}, max_a : {max_a_default, 8},
      control_frequency : {f, 8} ]

InitFilter ==
    /\ vel_pubs = {}
    /\ state_subs = {}
    /\ current_states = NoStates
    /\ current_side = 0
    /\ start_y = 0
    /\ goal_poses = [u \in Agents |-> GoalOf(u)]
    /\ parameters = [max_v |-> max_v_default, max_a |-> max_a_default]
    /\ tick = NoTick
    /\ done_before = {}
    /\ pubs_created = [u \in Agents |-> <<>>]
    /\ subs_created = [u \in Agents |-> <<>>]
    /\ last_report = NoStates
    /\ caller = "g"
    /\ fin \in FilterInputs
    /\ fout = <<>>

\* one call of action_constrain_vel_acc with the parameters of fin
CallFilter ==
    /\ fout = <<>>
    /\ fout' = action_constrain_vel_acc(fin.action, fin.velocity,
                                        fin.max_v, fin.max_a)
    /\ UNCHANGED << ctrl_vars, fin >>

NextFilter == CallFilter

SpecFilter == InitFilter /\ [][NextFilter]_vars

Abs(x) == IF x < 0 THEN -x ELSE x

\* ----------------------------------------------------------------- claims

\* C3 (as stated): after every call of the dynamics filter, on each axis the
\* result is within maxA / f of the current velocity, whatever the current
\* velocity is.
C3_ReachableAlways ==
    fout # <<>> =>
        \A i \in 1..2 : Abs(fout[i] - fin.velocity[i]) * f <= fin.max_a

\* C3 (amended): after every call of the dynamics filter, on each axis where
\* the current velocity is within maxV + maxA / f in magnitude, the result is
\* within maxA / f of the current velocity.
C3_ReachableNearBound ==
    fout # <<>> =>
        \A i \in 1..2 :
            Abs(fin.velocity[i]) * f <= fin.max_v * f + fin.max_a
                => Abs(fout[i] - fin.velocity[i]) * f <= fin.max_a

\* a call whose current velocity is above maxV but within one step of it and
\* whose action asks for far more than one step of change
C3_Witness ==
    /\ fout # <<>>
    /\ fin.velocity[1] > fin.max_v
    /\ fin.velocity[1] * f <= fin.max_v * f + fin.max_a
    /\ fin.action[1] = -40
    /\ Abs(fout[1] - fin.velocity[1]) * f = fin.max_a


\* C4: every command published by step has both velocity components within
\* [-max_v, +max_v].
C4_PublishedWithinMaxV ==
    \A k \in 1..Len(tick.published) :
        /\ Abs(tick.published[k].vn) <= parameters.max_v
        /\ Abs(tick.published[k].ve) <= parameters.max_v

\* a command published in the turned frame to an agent whose recorded speed
\* is above max_v, sitting on the bound
C4_Witness ==
    /\ tick.policy_calls = 1
    /\ current_side = 180
    /\ \E k \in 1..Len(tick.published) :
          /\ tick.published[k].uuid \in DOMAIN current_states
          /\ Abs(current_states[tick.published[k].uuid].vel[1]) > parameters.max_v
          /\ Abs(tick.published[k].vn) = parameters.max_v

\* clamp as the specification writes it
Clamp(x, lo, hi) == IF x < lo THEN lo ELSE IF hi < x THEN hi ELSE x

\* C5: the result of the dynamics filter is, on each axis independently,
\* clamp(v_cur + clamp((clamp(v_raw, -maxV, maxV) - v_cur) * 4, -maxA, maxA) / 4,
\* -maxV, maxV), and v_cur = (0,0), v_raw = (10,0), maxV = 1.5, maxA = 1.0
\* gives (0.25, 0).
C5_FilterFormula ==
    fout # <<>> =>
        /\ \A i \in 1..2 :
              fout[i] =
                Clamp(fin.velocity[i]
                        + Clamp((Clamp(fin.action[i], -fin.max_v, fin.max_v)
                                   - fin.velocity[i]) * 4,
                                -fin.max_a, fin.max_a) \div 4,
                      -fin.max_v, fin.max_v)
        /\ ( /\ fin.velocity = <<0, 0>> /\ fin.action = <<40, 0>>
             /\ fin.max_v = 6 /\ fin.max_a = 4 ) => fout = <<1, 0>>

\* the specification's scenario has been run
C5_Witness ==
    /\ fout = <<1, 0>>
    /\ fin.action = <<40, 0>>
    /\ fin.velocity = <<0, 0>>
    /\ fin.max_v = 6
    /\ fin.max_a = 4


\* the requested ids of the call of step that just returned
Requested == Range(tick.agents)

\* C1: in every call of step where some requested agent has no recorded
\* state, the policy is not invoked, no command is published and the
\* returned map gives false for every requested agent.
C1_NoPartialTick ==
    ( /\ tick.calls = 1
      /\ \E u \in Requested : u \notin DOMAIN current_states )
    => /\ tick.policy_calls = 0
       /\ tick.published = <<>>
       /\ tick.raised = ""
       /\ DOMAIN tick.dones = Requested
       /\ \A u \in Requested : tick.dones[u] = FALSE

\* C2: in every call of step where every requested agent has a recorded
\* state and neither a goal is missing nor the policy fails, the tick is not
\* short-circuited, the policy is invoked once and exactly one command is
\* published to each requested agent.
C2_FullTickRuns ==
    ( /\ tick.calls = 1
      /\ Requested \subseteq DOMAIN current_states
      /\ tick.raised \notin {"KeyError", "PolicyError"} )
    => /\ ~tick.short
       /\ tick.policy_calls = 1
       /\ \A u \in Requested :
             Cardinality({ k \in 1..Len(tick.published) :
                             tick.published[k].uuid = u }) = 1

\* C6: in every tick that is not short-circuited and returns, the done flag
\* of each requested agent is true exactly when the distance between that
\* agent's recorded world position and that agent's goal is strictly below
\* goal_reached_dist.
C6_DoneIsDistanceBelow ==
    ( tick.calls = 1 /\ ~tick.short /\ tick.raised = "" ) =>
        /\ DOMAIN tick.dones = Requested
        /\ \A u \in Requested :
              LET p == current_states[u].pos
                  g == goal_poses[u]
                  d2 == (p[1] - g[1]) * (p[1] - g[1]) + (p[2] - g[2]) * (p[2] - g[2])
              IN  tick.dones[u] <=> d2 < goal_reached_dist * goal_reached_dist

\* a tick that reports not done, at exactly the threshold distance, an agent
\* that an earlier tick reported done, next to an agent it reports done
C6_Witness ==
    /\ tick.calls = 1 /\ ~tick.short /\ tick.raised = ""
    /\ \E u, w \in Requested :
          /\ u \in done_before
          /\ ~tick.dones[u]
          /\ current_states[u].pos[1] - goal_poses[u][1] = goal_reached_dist
          /\ current_states[u].pos[2] = goal_poses[u][2]
          /\ tick.dones[w]

\* C7: a call of step that ends by raising has published no command.
C7_FailedTickPublishesNothing ==
    ( tick.calls = 1 /\ tick.raised # "" ) => tick.published = <<>>

\* the frame change as the specification describes it: the half turn maps
\* (x, y) to (-x, -y), the identity leaves it
HalfTurn(side, v) == IF side = 180 THEN << -v[1], -v[2] >> ELSE v

\* C8: within one tick the single transform current_side (identity or half
\* turn) takes every goal, position and velocity into the policy's frame,
\* the second application on the way out undoes it, and the published
\* command is the filtered action taken back to the world frame.
C8_OneFrameThereAndBack ==
    tick.policy_calls = 1 =>
        /\ current_side \in {0, 180}
        /\ \A i \in 1..Len(tick.obs_agents) :
              LET u == tick.obs_agents[i]
              IN  /\ tick.obs.goal[i] = HalfTurn(current_side, goal_poses[u])
                  /\ tick.obs.pos[i] = HalfTurn(current_side, current_states[u].pos)
                  /\ tick.obs.vel[i] = HalfTurn(current_side, current_states[u].vel)
                  /\ HalfTurn(current_side, tick.obs.pos[i]) = current_states[u].pos
                  /\ HalfTurn(current_side, tick.obs.vel[i]) = current_states[u].vel
        /\ \A k \in 1..Len(tick.published) :
              << tick.published[k].vn, tick.published[k].ve >> =
                 HalfTurn(current_side,
                          action_constrain_vel_acc(tick.actions[k], tick.obs.vel[k],
                                                   parameters.max_v, parameters.max_a))

\* a tick in the turned frame that observed a position off the origin and
\* published a command that is not zero
C8_Witness ==
    /\ tick.policy_calls = 1
    /\ current_side = 180
    /\ \E i \in 1..Len(tick.obs_agents) :
          /\ tick.obs.pos[i] = <<-1, -1>>
          /\ current_states[tick.obs_agents[i]].pos = <<1, 1>>
    /\ \E k \in 1..Len(tick.published) : tick.published[k].vn # 0

\* C9: every call of step, also a short-circuited one, leaves the frame
\* chosen by the start position alone: half turn if y > 0, identity if y <= 0.
C9_FrameFromStartPose ==
    tick.calls = 1 =>
        \/ start_y > 0 /\ current_side = 180
        \/ start_y <= 0 /\ current_side = 0

\* a short-circuited tick with y = 0 that found the half turn and left the
\* identity
C9_Witness ==
    /\ tick.calls = 1
    /\ tick.short
    /\ start_y = 0
    /\ tick.side_before = 180
    /\ current_side = 0

\* C10: every command published to agent u is computed from the action of
\* u's own observation entry and filtered against u's own velocity.
C10_OwnActionOwnVelocity ==
    tick.policy_calls = 1 =>
        \A k \in 1..Len(tick.published) :
            \E i \in 1..Len(tick.obs_agents) :
                /\ tick.obs_agents[i] = tick.published[k].uuid
                /\ << tick.published[k].vn, tick.published[k].ve >> =
                     HalfTurn(current_side,
                              action_constrain_vel_acc(
                                  tick.actions[i],
                                  HalfTurn(current_side,
                                           current_states[tick.published[k].uuid].vel),
                                  parameters.max_v, parameters.max_a))


\* the requested ids that have a recorded state, in the requested order
KnownRequested ==
    LET has_state(u) == u \in DOMAIN current_states
    IN  SelectSeq(tick.agents, has_state)

\* C11: every observation handed to the policy has goal, position and
\* velocity lists of one length, the number of requested agents with a
\* recorded state, and entry i of all three belongs to the i-th such agent.
C11_ObservationAligned ==
    tick.policy_calls = 1 =>
        /\ Len(tick.obs.pos) = Len(tick.obs.vel)
        /\ Len(tick.obs.pos) = Len(tick.obs.goal)
        /\ Len(tick.obs.pos) =
              Cardinality({ u \in Requested : u \in DOMAIN current_states })
        /\ \A i \in 1..Len(tick.obs.pos) :
              LET u == KnownRequested[i]
              IN  /\ tick.obs.goal[i] = HalfTurn(current_side, goal_poses[u])
                  /\ tick.obs.pos[i] = HalfTurn(current_side, current_states[u].pos)
                  /\ tick.obs.vel[i] = HalfTurn(current_side, current_states[u].vel)

\* the policy was handed one entry for two requested agents, the first of
\* which has no recorded state
C11_Witness ==
    /\ tick.policy_calls = 1
    /\ Len(tick.agents) = 2
    /\ tick.agents[1] \notin DOMAIN current_states
    /\ Len(tick.obs.pos) = 1
    /\ tick.obs.pos[1] = HalfTurn(current_side, current_states[tick.agents[2]].pos)

\* C12: registering is idempotent. Every registered id has had exactly one
\* publisher and one subscription created for it and every other id none,
\* the ids of a tick are registered, and a tick whose ids were all
\* registered before leaves both maps, the creations and the recorded
\* states as they were.
C12_RegistrationIdempotent ==
    /\ [](\A u \in Agents :
            /\ Len(pubs_created[u]) = (IF u \in vel_pubs THEN 1 ELSE 0)
            /\ Len(subs_created[u]) = (IF u \in state_subs THEN 1 ELSE 0))
    /\ [](tick.calls = 1 => Requested \subseteq vel_pubs \cap state_subs)
    /\ [][(tick'.calls = 1 /\ Range(tick'.agents) \subseteq vel_pubs \cap state_subs)
            => UNCHANGED << vel_pubs, state_subs, pubs_created, subs_created,
                            current_states >>]_vars

C12_Witness ==
    /\ tick.calls = 1
    /\ Len(tick.agents) = 2
    /\ \A u \in Requested :
          /\ u \in DOMAIN current_states
          /\ Len(pubs_created[u]) = 1
          /\ Len(subs_created[u]) = 1

\* C13: the recorded states are, id by id, the last report delivered for
\* the id (last write wins, other ids untouched); a report changes neither
\* the channel maps nor the frame; and the observation of a tick is built
\* from the last reports delivered before it.
C13_LastReportWins ==
    /\ [](current_states = last_report)
    /\ [][current_states' # current_states
            => UNCHANGED << vel_pubs, state_subs, current_side >>]_vars
    /\ [](tick.policy_calls = 1 =>
            \A i \in 1..Len(tick.obs.pos) :
                /\ tick.obs.pos[i]
                     = HalfTurn(current_side, last_report[KnownRequested[i]].pos)
                /\ tick.obs.vel[i]
                     = HalfTurn(current_side, last_report[KnownRequested[i]].vel))

\* "a" was done at an earlier tick, at its goal; a later report moved it and
\* the tick after that report observes the new position, "b" being untouched
C13_Witness ==
    /\ tick.policy_calls = 1
    /\ tick.agents = << "a", "b" >>
    /\ "a" \in done_before
    /\ {"a", "b"} \subseteq DOMAIN last_report
    /\ last_report["a"].pos = << 1, 1 >>
    /\ last_report["b"].pos = << 1, 0 >>
    /\ tick.obs.pos = << HalfTurn(current_side, << 1, 1 >>),
                         HalfTurn(current_side, << 1, 0 >>) >>

\* C14: the filter follows the configured control frequency: from a current
\* velocity within the velocity bound, the command differs from it by at
\* most maxA / f on each axis, f being the configured frequency.
C14_ChangeFollowsConfiguredF ==
    fout # <<>> =>
        \A i \in 1..2 :
            Abs(fin.velocity[i]) <= fin.max_v
                => Abs(fout[i] - fin.velocity[i]) * fin.control_frequency <= fin.max_a

\* C15: under-observation is transient. Once every requested agent has
\* reported, a tick that follows a tick with the same list (no report in
\* between changes that) invokes the policy and publishes, unless a goal is
\* missing or the policy fails; agents requested earlier do not matter.
C15_UnderObservationTransient ==
    [][( /\ tick.calls = 1
         /\ tick'.calls = 1
         /\ tick'.agents = tick.agents
         /\ Range(tick.agents) \subseteq DOMAIN current_states
         /\ tick'.raised \notin {"KeyError", "PolicyError"} )
       => /\ ~tick'.short
          /\ tick'.policy_calls = 1
          /\ tick'.published # <<>>]_vars

\* C16: each controller instance owns its registry. A registration or a
\* state report made through one instance leaves the channel map, the
\* subscription map and the recorded states seen by every other instance
\* unchanged.
C16_RegistryPerInstance ==
    [][\A inst \in Instances :
          inst # caller' =>
              /\ vel_pubs_of(inst)' = vel_pubs_of(inst)
              /\ state_subs_of(inst)' = state_subs_of(inst)
              /\ current_states_of(inst)' = current_states_of(inst)]_vars

\* C17: step registers every requested agent before anything else, so at
\* the emission loop every requested agent has a publisher: no triple is
\* ever passed over for want of one, and every triple of the loop has been
\* published.
C17_NoMissingChannel ==
    tick.calls = 1 =>
        /\ Requested \subseteq vel_pubs
        /\ tick.skipped = <<>>
        /\ tick.actions # <<>> =>
              Len(tick.published) = Min(Len(tick.agents), Len(tick.actions))

\* an emission loop run for two agents, a command published to each
C17_Witness ==
    /\ tick.calls = 1
    /\ Len(tick.agents) = 2
    /\ tick.skipped = <<>>
    /\ Len(tick.published) = 2
    /\ \A k \in 1..2 : tick.published[k].uuid = tick.agents[k]

\* C18: the registries only grow. No step of the program removes a
\* publisher, a subscription or a recorded state, and the number of recorded
\* states never decreases.
C18_RegistriesOnlyGrow ==
    [][/\ vel_pubs \subseteq vel_pubs'
       /\ state_subs \subseteq state_subs'
       /\ DOMAIN current_states \subseteq DOMAIN current_states'
       /\ Cardinality(DOMAIN current_states')
            >= Cardinality(DOMAIN current_states)]_vars

\* a tick that no longer requests an agent which keeps its publisher, its
\* subscription and its recorded state
C18_Witness ==
    /\ tick.calls = 1
    /\ \E u \in Agents \ Requested :
          /\ u \in vel_pubs
          /\ u \in state_subs
          /\ u \in DOMAIN current_states

\* C19: the agents with a publisher are the agents with a subscription, and
\* every agent with a recorded state is one of them; a tick that requests an
\* agent it has to register has no recorded state for that agent.
C19_RegisteredBeforeReported ==
    /\ [](vel_pubs = state_subs)
    /\ [](DOMAIN current_states \subseteq vel_pubs \cap state_subs)
    /\ [][tick'.calls = 1 =>
            \A u \in Range(tick'.agents) :
                u \notin vel_pubs \cap state_subs
                    => u \notin DOMAIN current_states']_vars

\* a tick requesting a reported agent and an agent without recorded state,
\* no other agent being registered
C19_Witness ==
    /\ tick.calls = 1
    /\ Len(tick.agents) = 2
    /\ vel_pubs = Requested
    /\ state_subs = Requested
    /\ tick.agents[1] \in DOMAIN current_states
    /\ tick.agents[2] \notin DOMAIN current_states
    /\ tick.short

====
